---------------------------- MODULE Spec2Model ----------------------------
(***************************************************************************)
(* A model of the scene manager (SceneManager.cpp) and the view manager    *)
(* (viewmanager.cpp) of the CS-330 still-life renderer.                    *)
(*                                                                         *)
(* Numbers: every float literal of the source is kept in hundredths        *)
(* (2.5f is 250, 90 degrees is 9000), so that all arithmetic is integer.   *)
(* The program is single threaded: GLFW callbacks run only between frames, *)
(* so every handler runs from "idle" back to "idle"; pc and ip give the    *)
(* position inside PrepareScene / RenderScene.                             *)
(***************************************************************************)
EXTENDS Integers, Sequences, FiniteSets, TLC

VARIABLES
    \* ---- SceneManager ----
    m_pShaderManager,   \* "shader" or "NULL"
    m_textureIDs,       \* the fixed array: [0..15 -> [tag, ID]]
    m_loadedTextures,   \* number of registered textures
    overrun,            \* records written past the end of m_textureIDs
    m_objectMaterials,  \* the materials list (std::vector<OBJECT_MATERIAL>)
    loadedMeshes,       \* mesh types loaded into m_basicMeshes
    glGenCount,         \* number of texture names glGenTextures has handed out
    glDeleted,          \* the texture names glDeleteTextures has released
    glBound,            \* texture bound to each texture unit by BindGLTextures
    uniforms,           \* the shader uniforms written through m_pShaderManager
    console,            \* last line LoadSceneTextures printed
    bReturn,            \* local of LoadSceneTextures
    pc, ip,             \* position: handler and step inside it
    \* ---- history of the scene manager, read by the properties only ----
    prepareCalls,       \* PrepareScene calls so far
    failedLoads,        \* failing CreateGLTexture calls so far
    lastCreate,         \* the last CreateGLTexture call: image, result, registry before
    prepLog,            \* phases of the current / last PrepareScene, in order
    sinceDraw,          \* RenderScene calls issued since the previous draw call
    lastDraw,           \* the last draw call: its preceding calls and mesh state
    lastMaterialCall,   \* the last SetShaderMaterial call: tag, list, uniforms written
    lastLookup,         \* the last FindTextureSlot call of this RenderScene
    createLog,          \* results of the CreateGLTexture calls of the current /
                        \* last LoadSceneTextures, in order
    lastDestroy,        \* the DestroyGLTextures call: registry and names before
    lastTransform,      \* the arguments of the last SetTransformations call
    \* ---- ViewManager ----
    g_pCamera,          \* the camera object
    bOrthographicProjection,
    gDeltaTime,         \* time between the current frame and the last
    gLastFrame,
    keysDown,           \* the keys glfwGetKey reports as pressed
    windowShouldClose,  \* set by glfwSetWindowShouldClose
    cameraCalls,        \* g_pCamera->ProcessKeyboard calls of the last frame
    gFirstMouse,        \* no mouse position has been seen yet
    gLastX, gLastY,     \* the mouse position of the previous move event
    yawVA, pitchSS,     \* the camera angles the mouse drives
    fieldOV,            \* the field of view the scroll wheel drives
    \* ---- history of the view manager, read by the properties only ----
    lastPOPress,        \* the key of the most recent press event among P and O
    lastFrame,          \* the last PrepareSceneView: lastPOPress and the
                        \* pressed keys it polled when it ran
    lastMouse,          \* the last Mouse_Position_Callback: its position, the
                        \* previous event's position, offsets, angles before
    lastScroll          \* the last Mouse_Scroll_Callback: fieldOV before it

sceneVars == <<m_pShaderManager, m_textureIDs, m_loadedTextures, overrun,
               m_objectMaterials, loadedMeshes, glGenCount, glBound, uniforms,
               console, bReturn, pc, ip, prepareCalls, failedLoads, lastCreate,
               prepLog, sinceDraw, lastDraw, lastMaterialCall, lastLookup,
               glDeleted, createLog, lastDestroy>>

\* the scene manager's variables other than the shader uniforms
sceneButUniforms == <<m_pShaderManager, m_textureIDs, m_loadedTextures, overrun,
                      m_objectMaterials, loadedMeshes, glGenCount, glBound,
                      console, bReturn, pc, ip, prepareCalls, failedLoads,
                      lastCreate, prepLog, sinceDraw, lastDraw,
                      lastMaterialCall, lastLookup, glDeleted, createLog,
                      lastDestroy>>

\* the variables of the mouse position handler, and of the scroll handler
cursorVars == <<gFirstMouse, gLastX, gLastY, yawVA, pitchSS, lastMouse>>
scrollVars == <<fieldOV, lastScroll>>

\* the view manager's variables other than the camera and the mouse's
frameVars == <<bOrthographicProjection, gDeltaTime, gLastFrame, keysDown,
               windowShouldClose, cameraCalls, lastPOPress, lastFrame>>

viewVars == <<g_pCamera, frameVars, cursorVars, scrollVars>>

vars == <<sceneVars, lastTransform, viewVars>>

----------------------------------------------------------------------------
\* Bounds of the model (not program constants).

\* PrepareScene calls explored; four calls of five textures pass the 16 slots.
MaxPrepareCalls == 4
\* failing CreateGLTexture calls explored over a whole run
MaxFailedLoads == 1
\* keys held down at the same time
MaxKeysDown == 2
\* largest value of the clock glfwGetTime reads
MaxClock == 2

----------------------------------------------------------------------------
\* Program constants.

\* size of m_textureIDs
MaxTextures == 16

\* the tags and files LoadSceneTextures registers, in call order
SceneTextures ==
    << [file |-> "Source/textures/black_back.jpg",   tag |-> "glass"],
       [file |-> "Source/textures/Gold_Metal.jpg",   tag |-> "top"],
       [file |-> "Source/textures/Wood_Table.jpg",   tag |-> "table"],
       [file |-> "Source/textures/swiss_cheese.jpg", tag |-> "cheese"],
       [file |-> "Source/textures/pear.jpg",         tag |-> "pear"] >>

\* tags the program looks up: the texture tags, the material tags, and the
\* tags RenderScene passes that are neither ("gold", "")
Tags == {"glass", "top", "table", "cheese", "pear", "wood", "plastic", "gold", ""}

\* what stbi_load can give back: 0 stands for a NULL image (file not loaded),
\* otherwise the number of colour channels of the decoded image
ImageChannels == {0, 1, 3, 4}

\* outcomes of the out-of-bounds write m_textureIDs[16..] (undefined behaviour):
\* the write lands in the memory after the array, or the process dies
OverrunOutcomes == {"overrun", "crash"}

----------------------------------------------------------------------------
\* Shader uniforms: a function from the names written so far to their values.

NoUniforms == [n \in {} |-> 0]

SetUniform(u, name, val) ==
    [n \in (DOMAIN u) \cup {name} |-> IF n = name THEN val ELSE u[n]]

\* the writes ws (a sequence of <<name, value>>) applied in order
RECURSIVE ApplyWrites(_, _)
ApplyWrites(u, ws) ==
    IF ws = <<>> THEN u
    ELSE ApplyWrites(SetUniform(u, Head(ws)[1], Head(ws)[2]), Tail(ws))

----------------------------------------------------------------------------
\* Texture registry.

\* SceneManager::SceneManager: every slot tagged "/0" with ID -1
EmptyRegistry == [i \in 0..(MaxTextures - 1) |-> [tag |-> "/0", ID |-> -1]]

\* m_textureIDs[index] as the compiled code addresses it: inside the array for
\* index < 16, the memory after the array beyond that
TextureAt(index) ==
    IF index < MaxTextures THEN m_textureIDs[index]
    ELSE overrun[index - MaxTextures + 1]

\* faulty variant: every decoded image is taken as uploadable
ChannelsSupported_AnyImage(colorChannels) == colorChannels # 0

\* the channel counts CreateGLTexture uploads (GL_RGB, GL_RGBA)
ChannelsSupported(colorChannels) == colorChannels = 3 \/ colorChannels = 4

\* m_textureIDs[m_loadedTextures] = {textureID, tag}; m_loadedTextures++
\* gives the new <<array, overrun, count>>
RegisterTexture(textureID, tag) ==
    IF m_loadedTextures < MaxTextures
    THEN [ids  |-> [m_textureIDs EXCEPT ![m_loadedTextures] =
                                     [tag |-> tag, ID |-> textureID]],
          over |-> overrun,
          n    |-> m_loadedTextures + 1]
    ELSE [ids  |-> m_textureIDs,
          over |-> Append(overrun, [tag |-> tag, ID |-> textureID]),
          n    |-> m_loadedTextures + 1]


\* CreateGLTexture(filename, tag) when stbi_load yields an image of
\* colorChannels channels (0: NULL). Gives the return value and the new
\* registry; gen is the number of glGenTextures calls made.
CreateGLTexture(filename, tag, colorChannels) ==
    IF colorChannels # 0
    THEN LET textureID == glGenCount + 1 IN
         IF ChannelsSupported(colorChannels)
         THEN LET r == RegisterTexture(textureID, tag) IN
              [ret |-> TRUE, ids |-> r.ids, over |-> r.over, n |-> r.n,
               gen |-> glGenCount + 1, oob |-> m_loadedTextures >= MaxTextures]
         ELSE [ret |-> FALSE, ids |-> m_textureIDs, over |-> overrun,
               n |-> m_loadedTextures, gen |-> glGenCount + 1, oob |-> FALSE]
    ELSE [ret |-> FALSE, ids |-> m_textureIDs, over |-> overrun,
          n |-> m_loadedTextures, gen |-> glGenCount, oob |-> FALSE]

\* BindGLTextures: unit i gets m_textureIDs[i].ID for i < m_loadedTextures
BindGLTextures == [i \in 0..(m_loadedTextures - 1) |-> TextureAt(i).ID]

\* the while loop of FindTextureID, from index on
RECURSIVE FindTextureIDFrom(_, _)
FindTextureIDFrom(tag, index) ==
    IF index < m_loadedTextures
    THEN IF TextureAt(index).tag = tag THEN TextureAt(index).ID
         ELSE FindTextureIDFrom(tag, index + 1)
    ELSE -1

\* FindTextureID(tag)
FindTextureID(tag) == FindTextureIDFrom(tag, 0)

\* the while loop of FindTextureSlot, from index on
RECURSIVE FindTextureSlotFrom(_, _)
FindTextureSlotFrom(tag, index) ==
    IF index < m_loadedTextures
    THEN IF TextureAt(index).tag = tag THEN index
         ELSE FindTextureSlotFrom(tag, index + 1)
    ELSE -1

\* faulty variant: the search keeps the last matching slot
FindTextureSlot_LastMatch(tag) ==
    LET hits == {i \in 0..(m_loadedTextures - 1) : TextureAt(i).tag = tag}
    IN  IF hits = {} THEN -1 ELSE CHOOSE i \in hits : \A j \in hits : j <= i

\* FindTextureSlot(tag)
FindTextureSlot(tag) == FindTextureSlotFrom(tag, 0)

----------------------------------------------------------------------------
\* Materials.

Material(tag, diffuse, specular, shininess, ambient, strength) ==
    [tag |-> tag, diffuseColor |-> diffuse, specularColor |-> specular,
     shininess |-> shininess, ambientColor |-> ambient,
     ambientStrength |-> strength]

\* the three materials DefineObjectMaterials appends, in order
SceneMaterials ==
    << Material("wood",    <<30, 30, 20>>, <<60, 50, 40>>, 2200, <<20, 20, 10>>, 40),
       Material("glass",   <<30, 20, 10>>, <<10, 10, 10>>,   30, <<40, 30, 10>>, 20),
       Material("plastic", <<30, 30, 30>>, <<60, 60, 60>>, 8500, <<40, 40, 40>>, 30) >>

DefineObjectMaterials == m_objectMaterials \o SceneMaterials

\* what an OBJECT_MATERIAL local holds before anything is assigned to it
\* (indeterminate): the model draws it from these
UninitMaterials ==
    { Material("", <<0, 0, 0>>, <<0, 0, 0>>, 0, <<0, 0, 0>>, 0),
      Material("", <<-7, 13, 99>>, <<5, -3, 1>>, -42, <<77, 0, -1>>, 12345) }

\* the while loop of FindMaterial, from index on: the output material
RECURSIVE FindMaterialFrom(_, _, _)
FindMaterialFrom(tag, material, index) ==
    IF index <= Len(m_objectMaterials)
    THEN IF m_objectMaterials[index].tag = tag
         THEN [material EXCEPT
                 !.diffuseColor    = m_objectMaterials[index].diffuseColor,
                 !.specularColor   = m_objectMaterials[index].specularColor,
                 !.shininess       = m_objectMaterials[index].shininess,
                 !.ambientColor    = m_objectMaterials[index].ambientColor,
                 !.ambientStrength = m_objectMaterials[index].ambientStrength]
         ELSE FindMaterialFrom(tag, material, index + 1)
    ELSE material

\* FindMaterial(tag, material): the return value and the output material
FindMaterial(tag, material) ==
    IF Len(m_objectMaterials) = 0
    THEN [ret |-> FALSE, material |-> material]
    ELSE [ret |-> TRUE, material |-> FindMaterialFrom(tag, material, 1)]

----------------------------------------------------------------------------
\* Matrices (glm::mat4), as tuples of four rows. Points and translations are
\* in hundredths, the entries of a rotation are -1, 0 or 1.

Dot4(a, b) == a[1] * b[1] + a[2] * b[2] + a[3] * b[3] + a[4] * b[4]

Column(m, c) == <<m[1][c], m[2][c], m[3][c], m[4][c]>>

\* row r of the matrix product a * b
MatMulRow(a, b, r) ==
    <<Dot4(a[r], Column(b, 1)), Dot4(a[r], Column(b, 2)),
      Dot4(a[r], Column(b, 3)), Dot4(a[r], Column(b, 4))>>

\* the matrix product a * b
MatMul(a, b) ==
    <<MatMulRow(a, b, 1), MatMulRow(a, b, 2), MatMulRow(a, b, 3), MatMulRow(a, b, 4)>>

\* the matrix m applied to the column vector v
MatVec(m, v) == <<Dot4(m[1], v), Dot4(m[2], v), Dot4(m[3], v), Dot4(m[4], v)>>

\* an angle in hundredths of a degree whose sine and cosine are integers
RightAngle(deg) == deg % 9000 = 0

Cos(deg) == CASE deg % 36000 = 0     -> 1
              [] deg % 36000 = 18000 -> -1
              [] OTHER               -> 0

Sin(deg) == CASE deg % 36000 = 9000  -> 1
              [] deg % 36000 = 27000 -> -1
              [] OTHER               -> 0

\* glm::scale(v)
glm_scale(v) ==
    << <<v[1], 0, 0, 0>>, <<0, v[2], 0, 0>>, <<0, 0, v[3], 0>>, <<0, 0, 0, 1>> >>

\* glm::rotate(glm::radians(deg), axis) for a unit axis
glm_rotate(deg, axis) ==
    LET c == Cos(deg)
        s == Sin(deg)
        t == <<(1 - c) * axis[1], (1 - c) * axis[2], (1 - c) * axis[3]>>
    IN  << <<c + t[1] * axis[1],
             t[2] * axis[1] - s * axis[3],
             t[3] * axis[1] + s * axis[2], 0>>,
           <<t[1] * axis[2] + s * axis[3],
             c + t[2] * axis[2],
             t[3] * axis[2] - s * axis[1], 0>>,
           <<t[1] * axis[3] - s * axis[2],
             t[2] * axis[3] + s * axis[1],
             c + t[3] * axis[3], 0>>,
           <<0, 0, 0, 1>> >>

\* glm::translate(v)
glm_translate(v) ==
    << <<1, 0, 0, v[1]>>, <<0, 1, 0, v[2]>>, <<0, 0, 1, v[3]>>, <<0, 0, 0, 1>> >>

\* faulty variant: the factors multiplied in the opposite order
ModelView_ScaleLast(scale, rotationX, rotationY, rotationZ, translation) ==
    MatMul(MatMul(MatMul(MatMul(scale, rotationX), rotationY), rotationZ),
           translation)

\* modelView = translation * rotationZ * rotationY * rotationX * scale
ModelView(scale, rotationX, rotationY, rotationZ, translation) ==
    MatMul(MatMul(MatMul(MatMul(translation, rotationZ), rotationY), rotationX),
           scale)

\* SetTransformations: the uniform writes it makes. Angles that are not right
\* angles have no integer sine and cosine: for those the uploaded matrix is
\* kept as the unevaluated product of its five factors.
SetTransformations(scaleXYZ, XrotationDegrees, YrotationDegrees, ZrotationDegrees, positionXYZ) ==
    LET modelView ==
          IF RightAngle(XrotationDegrees) /\ RightAngle(YrotationDegrees)
             /\ RightAngle(ZrotationDegrees)
          THEN ModelView(glm_scale(scaleXYZ),
                         glm_rotate(XrotationDegrees, <<1, 0, 0>>),
                         glm_rotate(YrotationDegrees, <<0, 1, 0>>),
                         glm_rotate(ZrotationDegrees, <<0, 0, 1>>),
                         glm_translate(positionXYZ))
          ELSE << <<"translate", positionXYZ>>,
                  <<"rotateZ", ZrotationDegrees>>,
                  <<"rotateY", YrotationDegrees>>,
                  <<"rotateX", XrotationDegrees>>,
                  <<"scale", scaleXYZ>> >>
    IN  IF m_pShaderManager # "NULL"
        THEN << <<"model", modelView>> >>
        ELSE <<>>

\* SetShaderColor: the uniform writes it makes
SetShaderColor(redColorValue, greenColorValue, blueColorValue, alphaValue) ==
    IF m_pShaderManager # "NULL"
    THEN << <<"bUseTexture", FALSE>>,
            <<"objectColor",
              <<redColorValue, greenColorValue, blueColorValue, alphaValue>>>> >>
    ELSE <<>>

\* SetShaderTexture: the uniform writes it makes
SetShaderTexture(textureTag) ==
    IF m_pShaderManager # "NULL"
    THEN << <<"bUseTexture", TRUE>>,
            <<"objectTexture", FindTextureSlot(textureTag)>> >>
    ELSE <<>>

\* SetShaderMaterial: the uniform writes it makes; uninit is what the local
\* OBJECT_MATERIAL holds before FindMaterial is called
SetShaderMaterial(materialTag, uninit) ==
    IF Len(m_objectMaterials) > 0
    THEN LET found == FindMaterial(materialTag, uninit)
             material == found.material
         IN  IF found.ret = TRUE
             THEN << <<"material.diffuseColor", material.diffuseColor>>,
                     <<"material.specularColor", material.specularColor>>,
                     <<"material.shininess", material.shininess>>,
                     <<"material.ambientColor", material.ambientColor>>,
                     <<"material.ambientStrength", material.ambientStrength>> >>
             ELSE <<>>
    ELSE <<>>

\* SetupSceneLights: the uniform writes it makes
SetupSceneLights ==
    << <<"lightSources[0].position", <<300, 1400, 0>>>>,
       <<"lightSources[0].ambientColor", <<30, 30, 30>>>>,
       <<"lightSources[0].diffuseColor", <<80, 80, 80>>>>,
       <<"lightSources[0].specularColor", <<50, 50, 50>>>>,
       <<"lightSources[0].focalStrength", 3200>>,
       <<"lightSources[0].specularIntensity", 100>>,
       <<"lightSources[1].position", <<300, 1400, 0>>>>,
       <<"lightSources[1].ambientColor", <<3, 3, 3>>>>,
       <<"lightSources[1].diffuseColor", <<80, 80, 80>>>>,
       <<"lightSources[1].specularColor", <<50, 50, 50>>>>,
       <<"lightSources[1].focalStrength", 3200>>,
       <<"lightSources[1].specularIntensity", 110>>,
       <<"lightSources[2].position", <<300, 1400, 0>>>>,
       <<"lightSources[2].ambientColor", <<3, 3, 3>>>>,
       <<"lightSources[2].diffuseColor", <<80, 80, 80>>>>,
       <<"lightSources[2].specularColor", <<50, 50, 50>>>>,
       <<"lightSources[2].focalStrength", 3200>>,
       <<"lightSources[2].specularIntensity", 160>>,
       <<"bUseLighting", TRUE>> >>

\* faulty variant: LoadTorusMesh is left out
PrepareSceneMeshes_WithoutTorus ==
    <<"Plane", "Cylinder", "Cone", "TaperedCylinder", "Sphere", "Pyramid3",
      "Prism", "Box">>

\* the mesh types PrepareScene loads, in call order
PrepareSceneMeshes ==
    <<"Plane", "Cylinder", "Cone", "Torus", "TaperedCylinder", "Sphere",
      "Pyramid3", "Prism", "Box">>

\* the calls RenderScene makes, in source order (the source line at the right)
RenderSceneCalls == <<
    [op |-> "SetTransformations", a |-> <<<<4500, 500, 2000>>, 0, 0, 0, <<0, -1500, 0>>>>],  \* 514
    [op |-> "SetShaderColor", a |-> <<100, 100, 100, 100>>],  \* 523
    [op |-> "SetShaderTexture", a |-> "table"],  \* 526
    [op |-> "SetShaderMaterial", a |-> "wood"],  \* 529
    [op |-> "Draw", a |-> "Plane"],  \* 532
    [op |-> "SetTransformations", a |-> <<<<250, 1225, 200>>, -1000, 0, 0, <<0, -800, 0>>>>],  \* 552
    [op |-> "SetShaderColor", a |-> <<100, 100, 100, 100>>],  \* 560
    [op |-> "SetShaderTexture", a |-> "glass"],  \* 563
    [op |-> "SetShaderMaterial", a |-> "glass"],  \* 566
    [op |-> "Draw", a |-> "Cylinder"],  \* 570
    [op |-> "SetTransformations", a |-> <<<<210, 150, 0>>, 0, 0, 0, <<0, 450, 0>>>>],  \* 588
    [op |-> "SetShaderColor", a |-> <<100, 0, 0, 100>>],  \* 596
    [op |-> "SetShaderTexture", a |-> "glass"],  \* 599
    [op |-> "SetShaderMaterial", a |-> "glass"],  \* 602
    [op |-> "Draw", a |-> "Sphere"],  \* 605
    [op |-> "SetTransformations", a |-> <<<<125, 325, 0>>, 0, 0, 0, <<0, 480, 0>>>>],  \* 625
    [op |-> "SetShaderColor", a |-> <<100, 0, 0, 100>>],  \* 633
    [op |-> "SetShaderTexture", a |-> "glass"],  \* 636
    [op |-> "SetShaderMaterial", a |-> "glass"],  \* 639
    [op |-> "Draw", a |-> "TaperedCylinder"],  \* 642
    [op |-> "SetTransformations", a |-> <<<<67, 250, 0>>, -1000, 0, 0, <<0, 800, 0>>>>],  \* 658
    [op |-> "SetShaderColor", a |-> <<200, 200, 0, 200>>],  \* 667
    [op |-> "SetShaderTexture", a |-> "top"],  \* 670
    [op |-> "SetShaderMaterial", a |-> "glass"],  \* 674
    [op |-> "Draw", a |-> "Cylinder"],  \* 677
    [op |-> "SetTransformations", a |-> <<<<75, 60, 0>>, 0, 0, 0, <<0, 900, 0>>>>],  \* 696
    [op |-> "SetShaderColor", a |-> <<200, 100, 100, 200>>],  \* 705
    [op |-> "SetShaderTexture", a |-> "top"],  \* 708
    [op |-> "SetShaderMaterial", a |-> "gold"],  \* 711
    [op |-> "Draw", a |-> "Cylinder"],  \* 714
    [op |-> "SetTransformations", a |-> <<<<74, 75, 0>>, 9000, 0, 0, <<0, 993, 0>>>>],  \* 733
    [op |-> "SetShaderColor", a |-> <<100, 0, 0, 100>>],  \* 741
    [op |-> "SetShaderTexture", a |-> "gold"],  \* 744
    [op |-> "SetShaderMaterial", a |-> "glass"],  \* 747
    [op |-> "Draw", a |-> "Cylinder"],  \* 750
    [op |-> "SetTransformations", a |-> <<<<175, 200, 200>>, 0, 0, 0, <<-350, -420, 250>>>>],  \* 770
    [op |-> "SetShaderColor", a |-> <<0, 100, 0, 100>>],  \* 778
    [op |-> "SetShaderTexture", a |-> "pear"],  \* 781
    [op |-> "SetShaderMaterial", a |-> "plastic"],  \* 784
    [op |-> "Draw", a |-> "Sphere"],  \* 787
    [op |-> "SetTransformations", a |-> <<<<172, 400, 200>>, 0, 0, -3000, <<-360, -420, 250>>>>],  \* 806
    [op |-> "SetShaderColor", a |-> <<0, 100, 0, 100>>],  \* 814
    [op |-> "SetShaderTexture", a |-> "pear"],  \* 817
    [op |-> "SetShaderMaterial", a |-> "plastic"],  \* 820
    [op |-> "Draw", a |-> "TaperedCylinder"],  \* 823
    [op |-> "SetTransformations", a |-> <<<<-10, 175, 0>>, 0, 100, -3000, <<-175, -100, 200>>>>],  \* 841
    [op |-> "SetShaderColor", a |-> <<36, 25, 20, 100>>],  \* 849
    [op |-> "SetShaderMaterial", a |-> "wood"],  \* 852
    [op |-> "Draw", a |-> "Cylinder"],  \* 856
    [op |-> "SetTransformations", a |-> <<<<450, 375, 300>>, 4500, 1500, -7500, <<460, -575, 90>>>>],  \* 881
    [op |-> "SetShaderColor", a |-> <<100, 100, 0, 100>>],  \* 884
    [op |-> "SetShaderTexture", a |-> "cheese"],  \* 887
    [op |-> "SetShaderMaterial", a |-> "plastic"],  \* 890
    [op |-> "Draw", a |-> "Prism"],  \* 893
    [op |-> "SetTransformations", a |-> <<<<25, 265, 100>>, 6500, 6000, 0, <<300, -775, 300>>>>],  \* 914
    [op |-> "SetShaderColor", a |-> <<80, 80, 90, 50>>],  \* 922
    [op |-> "SetShaderMaterial", a |-> ""],  \* 926
    [op |-> "Draw", a |-> "Sphere"],  \* 929
    [op |-> "SetTransformations", a |-> <<<<-30, 645, 0>>, 0, 0, 350, <<330, -800, 300>>>>],  \* 947
    [op |-> "SetShaderColor", a |-> <<80, 80, 90, 50>>],  \* 955
    [op |-> "SetShaderMaterial", a |-> "glass"],  \* 959
    [op |-> "Draw", a |-> "TaperedCylinder"],  \* 962
    [op |-> "SetTransformations", a |-> <<<<195, 175, 860>>, 9000, 0, 0, <<275, 75, 300>>>>],  \* 980
    [op |-> "SetShaderColor", a |-> <<80, 80, 90, 25>>],  \* 983
    [op |-> "SetShaderMaterial", a |-> "glass"],  \* 986
    [op |-> "Draw", a |-> "Torus"]   \* 989
    >>

----------------------------------------------------------------------------
\* SceneManager: initial state and handlers.

NoDraw == [mesh |-> "none", setup |-> <<>>, loaded |-> TRUE, prepared |-> FALSE]

NoMaterialCall == [tag |-> "none", materials |-> <<>>, writes |-> <<>>]

NoCreate == [tag |-> "none", image |-> "none", ret |-> FALSE, outcome |-> "none",
             ids |-> EmptyRegistry, over |-> <<>>, n |-> 0]

NoLookup == [tag |-> "none", slot |-> -1, ids |-> EmptyRegistry,
             over |-> <<>>, n |-> 0]

NoDestroy == [called |-> FALSE, returned |-> FALSE, ids |-> EmptyRegistry,
              over |-> <<>>, n |-> 0, gen |-> 0]

\* SceneManager::SceneManager
SceneInit ==
    /\ m_pShaderManager = "shader"
    /\ m_textureIDs = EmptyRegistry
    /\ m_loadedTextures = 0
    /\ overrun = <<>>
    /\ m_objectMaterials = <<>>
    /\ loadedMeshes = {}
    /\ glGenCount = 0
    /\ glBound = <<>>
    /\ uniforms = NoUniforms
    /\ console = ""
    /\ bReturn = FALSE
    /\ pc = "idle"
    /\ ip = 0
    /\ prepareCalls = 0
    /\ failedLoads = 0
    /\ lastCreate = NoCreate
    /\ prepLog = <<>>
    /\ sinceDraw = <<>>
    /\ lastDraw = NoDraw
    /\ lastMaterialCall = NoMaterialCall
    /\ lastLookup = NoLookup
    /\ glDeleted = {}
    /\ createLog = <<>>
    /\ lastDestroy = NoDestroy

\* PrepareScene is entered: LoadSceneTextures starts with bReturn = false
PrepareScene ==
    /\ pc = "idle"
    /\ prepareCalls < MaxPrepareCalls
    /\ pc' = "LoadSceneTextures"
    /\ ip' = 1
    /\ bReturn' = FALSE
    /\ prepareCalls' = prepareCalls + 1
    /\ prepLog' = <<>>
    /\ createLog' = <<>>
    /\ UNCHANGED <<m_pShaderManager, m_textureIDs, m_loadedTextures, overrun,
                   m_objectMaterials, loadedMeshes, glGenCount, glBound,
                   uniforms, console, failedLoads, lastCreate, sinceDraw,
                   lastDraw, lastMaterialCall>>
    /\ UNCHANGED <<lastTransform, lastLookup, viewVars, glDeleted, lastDestroy>>

\* the ip-th "bReturn = CreateGLTexture(file, tag)" of LoadSceneTextures
LoadSceneTextures_CreateGLTexture ==
    /\ pc = "LoadSceneTextures"
    /\ ip \in 1..Len(SceneTextures)
    /\ \E colorChannels \in ImageChannels, outcome \in OverrunOutcomes :
         LET t == SceneTextures[ip]
             r == CreateGLTexture(t.file, t.tag, colorChannels)
             crash == r.oob /\ outcome = "crash"
         IN  /\ r.oob \/ outcome = "overrun"
             /\ r.ret \/ failedLoads < MaxFailedLoads
             /\ failedLoads' = IF r.ret THEN failedLoads ELSE failedLoads + 1
             /\ lastCreate' = [tag |-> t.tag,
                               image |-> IF colorChannels = 0 THEN "none"
                                         ELSE IF colorChannels \in {3, 4}
                                         THEN "3 or 4 channels"
                                         ELSE "other channels",
                               ret |-> r.ret,
                               outcome |-> IF r.oob THEN outcome ELSE "stored",
                               ids |-> m_textureIDs, over |-> overrun,
                               n |-> m_loadedTextures]
             /\ glGenCount' = r.gen
             /\ IF crash
                THEN /\ pc' = "crashed"
                     /\ UNCHANGED <<m_textureIDs, m_loadedTextures, overrun,
                                    bReturn, ip, createLog>>
                ELSE /\ m_textureIDs' = r.ids
                     /\ overrun' = r.over
                     /\ m_loadedTextures' = r.n
                     /\ bReturn' = r.ret
                     /\ createLog' = Append(createLog, r.ret)
                     /\ ip' = ip + 1
                     /\ pc' = pc
    /\ UNCHANGED <<m_pShaderManager, m_objectMaterials, loadedMeshes, glBound,
                   uniforms, console, prepareCalls, prepLog, sinceDraw,
                   lastDraw, lastMaterialCall>>
    /\ UNCHANGED <<lastTransform, lastLookup, viewVars, glDeleted, lastDestroy>>

\* the end of LoadSceneTextures: the message and BindGLTextures
LoadSceneTextures_Finish ==
    /\ pc = "LoadSceneTextures"
    /\ ip = Len(SceneTextures) + 1
    /\ console' = IF bReturn THEN "Texture loaded successfully."
                  ELSE "Failed to load texture."
    /\ glBound' = BindGLTextures
    /\ prepLog' = Append(prepLog, "LoadSceneTextures")
    /\ pc' = "DefineObjectMaterials"
    /\ ip' = 0
    /\ UNCHANGED <<m_pShaderManager, m_textureIDs, m_loadedTextures, overrun,
                   m_objectMaterials, loadedMeshes, glGenCount, uniforms,
                   bReturn, prepareCalls, failedLoads, lastCreate, sinceDraw,
                   lastDraw, lastMaterialCall>>
    /\ UNCHANGED <<lastTransform, lastLookup, viewVars, glDeleted, lastDestroy, createLog>>

\* PrepareScene calls DefineObjectMaterials
PrepareScene_DefineObjectMaterials ==
    /\ pc = "DefineObjectMaterials"
    /\ m_objectMaterials' = DefineObjectMaterials
    /\ prepLog' = Append(prepLog, "DefineObjectMaterials")
    /\ pc' = "SetupSceneLights"
    /\ UNCHANGED <<m_pShaderManager, m_textureIDs, m_loadedTextures, overrun,
                   loadedMeshes, glGenCount, glBound, uniforms, console,
                   bReturn, ip, prepareCalls, failedLoads, lastCreate,
                   sinceDraw, lastDraw, lastMaterialCall>>
    /\ UNCHANGED <<lastTransform, lastLookup, viewVars, glDeleted, lastDestroy, createLog>>

\* PrepareScene calls SetupSceneLights
PrepareScene_SetupSceneLights ==
    /\ pc = "SetupSceneLights"
    /\ uniforms' = ApplyWrites(uniforms, SetupSceneLights)
    /\ prepLog' = Append(prepLog, "SetupSceneLights")
    /\ pc' = "LoadMeshes"
    /\ UNCHANGED <<m_pShaderManager, m_textureIDs, m_loadedTextures, overrun,
                   m_objectMaterials, loadedMeshes, glGenCount, glBound,
                   console, bReturn, ip, prepareCalls, failedLoads, lastCreate,
                   sinceDraw, lastDraw, lastMaterialCall>>
    /\ UNCHANGED <<lastTransform, lastLookup, viewVars, glDeleted, lastDestroy, createLog>>

\* PrepareScene loads the meshes and returns
PrepareScene_LoadMeshes ==
    /\ pc = "LoadMeshes"
    /\ loadedMeshes' = loadedMeshes \cup
                         {PrepareSceneMeshes[i] : i \in DOMAIN PrepareSceneMeshes}
    /\ prepLog' = prepLog \o PrepareSceneMeshes
    /\ pc' = "idle"
    /\ UNCHANGED <<m_pShaderManager, m_textureIDs, m_loadedTextures, overrun,
                   m_objectMaterials, glGenCount, glBound, uniforms, console,
                   bReturn, ip, prepareCalls, failedLoads, lastCreate,
                   sinceDraw, lastDraw, lastMaterialCall>>
    /\ UNCHANGED <<lastTransform, lastLookup, viewVars, glDeleted, lastDestroy, createLog>>

\* faulty variant: the second object issues no SetTransformations call
RenderCall_ForgetsTransform(i) ==
    IF i = 6 THEN RenderSceneCalls[7] ELSE RenderSceneCalls[i]

\* the i-th call RenderScene makes
RenderCall(i) == RenderSceneCalls[i]

\* position after the ip-th call of RenderScene
RenderAdvance ==
    IF ip = Len(RenderSceneCalls)
    THEN pc' = "idle" /\ ip' = 0
    ELSE pc' = pc /\ ip' = ip + 1

\* RenderScene is entered
RenderScene ==
    /\ pc = "idle"
    /\ pc' = "RenderScene"
    /\ ip' = 1
    /\ sinceDraw' = <<>>
    /\ UNCHANGED <<m_pShaderManager, m_textureIDs, m_loadedTextures, overrun,
                   m_objectMaterials, loadedMeshes, glGenCount, glBound,
                   uniforms, console, bReturn, prepareCalls, failedLoads,
                   lastCreate, prepLog, lastDraw, lastMaterialCall>>
    /\ lastLookup' = NoLookup
    /\ UNCHANGED <<lastTransform, viewVars, glDeleted, lastDestroy, createLog>>

RenderScene_SetTransformations ==
    /\ pc = "RenderScene"
    /\ RenderCall(ip).op = "SetTransformations"
    /\ LET a == RenderCall(ip).a
       IN  uniforms' = ApplyWrites(uniforms,
                          SetTransformations(a[1], a[2], a[3], a[4], a[5]))
    /\ lastTransform' = [called |-> TRUE, scale |-> RenderCall(ip).a[1],
                         X |-> RenderCall(ip).a[2], Y |-> RenderCall(ip).a[3],
                         Z |-> RenderCall(ip).a[4],
                         position |-> RenderCall(ip).a[5]]
    /\ sinceDraw' = Append(sinceDraw, "SetTransformations")
    /\ RenderAdvance
    /\ UNCHANGED <<m_pShaderManager, m_textureIDs, m_loadedTextures, overrun,
                   m_objectMaterials, loadedMeshes, glGenCount, glBound,
                   console, bReturn, prepareCalls, failedLoads, lastCreate,
                   prepLog, lastDraw, lastMaterialCall>>
    /\ UNCHANGED <<lastLookup, viewVars, glDeleted, lastDestroy, createLog>>

RenderScene_SetShaderColor ==
    /\ pc = "RenderScene"
    /\ RenderCall(ip).op = "SetShaderColor"
    /\ LET a == RenderCall(ip).a
       IN  uniforms' = ApplyWrites(uniforms,
                          SetShaderColor(a[1], a[2], a[3], a[4]))
    /\ sinceDraw' = Append(sinceDraw, "SetShaderColor")
    /\ RenderAdvance
    /\ UNCHANGED <<m_pShaderManager, m_textureIDs, m_loadedTextures, overrun,
                   m_objectMaterials, loadedMeshes, glGenCount, glBound,
                   console, bReturn, prepareCalls, failedLoads, lastCreate,
                   prepLog, lastDraw, lastMaterialCall>>
    /\ UNCHANGED <<lastTransform, lastLookup, viewVars, glDeleted, lastDestroy, createLog>>

RenderScene_SetShaderTexture ==
    /\ pc = "RenderScene"
    /\ RenderCall(ip).op = "SetShaderTexture"
    /\ uniforms' = ApplyWrites(uniforms, SetShaderTexture(RenderCall(ip).a))
    /\ sinceDraw' = Append(sinceDraw, "SetShaderTexture")
    /\ RenderAdvance
    /\ UNCHANGED <<m_pShaderManager, m_textureIDs, m_loadedTextures, overrun,
                   m_objectMaterials, loadedMeshes, glGenCount, glBound,
                   console, bReturn, prepareCalls, failedLoads, lastCreate,
                   prepLog, lastDraw, lastMaterialCall>>
    /\ lastLookup' = [tag |-> RenderCall(ip).a,
                      slot |-> FindTextureSlot(RenderCall(ip).a),
                      ids |-> m_textureIDs, over |-> overrun,
                      n |-> m_loadedTextures]
    /\ UNCHANGED <<lastTransform, viewVars, glDeleted, lastDestroy, createLog>>

RenderScene_SetShaderMaterial ==
    /\ pc = "RenderScene"
    /\ RenderCall(ip).op = "SetShaderMaterial"
    /\ \E uninit \in UninitMaterials :
         LET writes == SetShaderMaterial(RenderCall(ip).a, uninit)
         IN  /\ uniforms' = ApplyWrites(uniforms, writes)
             /\ lastMaterialCall' = [tag |-> RenderCall(ip).a,
                                     materials |-> m_objectMaterials,
                                     writes |-> writes]
    /\ sinceDraw' = Append(sinceDraw, "SetShaderMaterial")
    /\ RenderAdvance
    /\ UNCHANGED <<m_pShaderManager, m_textureIDs, m_loadedTextures, overrun,
                   m_objectMaterials, loadedMeshes, glGenCount, glBound,
                   console, bReturn, prepareCalls, failedLoads, lastCreate,
                   prepLog, lastDraw>>
    /\ UNCHANGED <<lastTransform, lastLookup, viewVars, glDeleted, lastDestroy, createLog>>

\* m_basicMeshes->Draw<mesh>Mesh()
RenderScene_Draw ==
    /\ pc = "RenderScene"
    /\ RenderCall(ip).op = "Draw"
    /\ lastDraw' = [mesh |-> RenderCall(ip).a, setup |-> sinceDraw,
                    loaded |-> RenderCall(ip).a \in loadedMeshes,
                    prepared |-> prepareCalls > 0]
    /\ sinceDraw' = <<>>
    /\ RenderAdvance
    /\ UNCHANGED <<m_pShaderManager, m_textureIDs, m_loadedTextures, overrun,
                   m_objectMaterials, loadedMeshes, glGenCount, glBound,
                   uniforms, console, bReturn, prepareCalls, failedLoads,
                   lastCreate, prepLog, lastMaterialCall>>
    /\ UNCHANGED <<lastTransform, lastLookup, viewVars, glDeleted, lastDestroy, createLog>>

\* DestroyGLTextures: the loop "glGenTextures(1, &m_textureIDs[i].ID)" over
\* the used slots. Gives the new registry, the number of names generated
\* and the names released; oob: a slot past the array is written.
DestroyGLTextures ==
    [ids  |-> [i \in 0..(MaxTextures - 1) |->
                 IF i < m_loadedTextures
                 THEN [m_textureIDs[i] EXCEPT !.ID = glGenCount + i + 1]
                 ELSE m_textureIDs[i]],
     over |-> [k \in 1..Len(overrun) |->
                 [overrun[k] EXCEPT !.ID = glGenCount + MaxTextures + k]],
     gen  |-> glGenCount + m_loadedTextures,
     deleted |-> glDeleted,
     oob  |-> m_loadedTextures > MaxTextures]

\* SceneManager::~SceneManager: drops the shader manager and the meshes and
\* calls DestroyGLTextures. A write past the array either lands in the
\* memory behind it or stops the program after the 16 slots of the array.
SceneManager_Destructor ==
    /\ pc = "idle"
    /\ \E outcome \in OverrunOutcomes :
         LET d == DestroyGLTextures
             crash == d.oob /\ outcome = "crash"
         IN  /\ d.oob \/ outcome = "overrun"
             /\ lastDestroy' = [called |-> TRUE, returned |-> ~crash,
                                ids |-> m_textureIDs, over |-> overrun,
                                n |-> m_loadedTextures, gen |-> glGenCount]
             /\ m_textureIDs' = d.ids
             /\ glDeleted' = d.deleted
             /\ IF crash
                THEN /\ pc' = "crashed"
                     /\ glGenCount' = glGenCount + MaxTextures + 1
                     /\ UNCHANGED overrun
                ELSE /\ pc' = "destroyed"
                     /\ glGenCount' = d.gen
                     /\ overrun' = d.over
    /\ m_pShaderManager' = "NULL"
    /\ loadedMeshes' = {}
    /\ lastCreate' = NoCreate
    /\ UNCHANGED <<m_loadedTextures, m_objectMaterials, glBound, uniforms,
                   console, bReturn, ip, prepareCalls, failedLoads, prepLog,
                   sinceDraw, lastDraw, lastMaterialCall, createLog>>
    /\ UNCHANGED <<lastTransform, lastLookup, viewVars>>

NextScene ==
    \/ PrepareScene
    \/ LoadSceneTextures_CreateGLTexture
    \/ LoadSceneTextures_Finish
    \/ PrepareScene_DefineObjectMaterials
    \/ PrepareScene_SetupSceneLights
    \/ PrepareScene_LoadMeshes
    \/ RenderScene
    \/ RenderScene_SetTransformations
    \/ RenderScene_SetShaderColor
    \/ RenderScene_SetShaderTexture
    \/ RenderScene_SetShaderMaterial
    \/ RenderScene_Draw
    \/ SceneManager_Destructor

NoTransform == [called |-> FALSE, scale |-> <<0, 0, 0>>, X |-> 0, Y |-> 0,
                Z |-> 0, position |-> <<0, 0, 0>>]


----------------------------------------------------------------------------
\* ViewManager (viewmanager.cpp).

WINDOW_WIDTH == 1000
WINDOW_HEIGHT == 800

\* the keys the program reads
Keys == {"P", "O", "ESCAPE", "W", "A", "S", "D", "Q", "E"}

\* the action argument GLFW passes to a key callback
KeyActions == {"GLFW_PRESS", "GLFW_RELEASE", "GLFW_REPEAT"}

\* ViewManager::ViewManager: the camera's view parameters
NewCamera ==
    [Position |-> <<0, 500, 2000>>, Front |-> <<0, -50, -200>>,
     Up |-> <<0, 100, 0>>, Zoom |-> 8000, MovementSpeed |-> 1000]

\* the keys ProcessKeyboardEvents asks glfwGetKey about
PolledKeys == {"ESCAPE", "W", "A", "S", "D", "Q", "E"}

NoFrame == [n |-> 0, lastPOPress |-> "none", polled |-> {},
            fieldOV |-> 0, scrolled |-> FALSE]

NoMouse == [called |-> FALSE, first |-> FALSE, x |-> 0, y |-> 0,
            previous |-> <<0, 0>>, xOffset |-> 0, yOffset |-> 0,
            yaw |-> 0, pitch |-> 0]

NoScroll == [called |-> FALSE, fieldOV |-> 0, yOffset |-> 0]

ViewInit ==
    /\ g_pCamera = NewCamera
    /\ bOrthographicProjection = FALSE
    /\ gDeltaTime = 250
    /\ gLastFrame = 0
    /\ keysDown = {}
    /\ windowShouldClose = FALSE
    /\ cameraCalls = <<>>
    /\ lastPOPress = "none"
    /\ lastFrame = NoFrame
    /\ gFirstMouse = TRUE
    /\ gLastX = (WINDOW_WIDTH * 100) \div 2
    /\ gLastY = (WINDOW_HEIGHT * 100) \div 2
    /\ yawVA = -9000
    /\ pitchSS = 0
    /\ fieldOV = 9000
    /\ lastMouse = NoMouse
    /\ lastScroll = NoScroll

\* faulty variant: the action (press, release, repeat) is not tested
pressKey_Callback_AnyAction(compKey, press) ==
    IF compKey = "P" THEN FALSE
    ELSE IF compKey = "O" THEN TRUE
    ELSE bOrthographicProjection

\* pressKey_Callback: the new value of bOrthographicProjection
pressKey_Callback(compKey, press) ==
    IF press = "GLFW_PRESS"
    THEN IF compKey = "P" THEN FALSE
         ELSE IF compKey = "O" THEN TRUE
         ELSE bOrthographicProjection
    ELSE bOrthographicProjection

\* GLFW delivers a key event: it updates the key state glfwGetKey reports
\* and calls pressKey_Callback
KeyEvent ==
    /\ pc = "idle"
    /\ \E compKey \in Keys, press \in KeyActions :
         /\ IF press = "GLFW_PRESS"
            THEN compKey \notin keysDown /\ Cardinality(keysDown) < MaxKeysDown
            ELSE compKey \in keysDown
         /\ keysDown' = CASE press = "GLFW_PRESS"   -> keysDown \cup {compKey}
                          [] press = "GLFW_RELEASE" -> keysDown \ {compKey}
                          [] OTHER                  -> keysDown
         /\ bOrthographicProjection' = pressKey_Callback(compKey, press)
         /\ lastPOPress' = IF press = "GLFW_PRESS" /\ compKey \in {"P", "O"}
                           THEN compKey ELSE lastPOPress
    /\ UNCHANGED <<g_pCamera, gDeltaTime, gLastFrame, windowShouldClose,
                   cameraCalls, lastFrame>>
    /\ UNCHANGED <<cursorVars, scrollVars>>
    /\ UNCHANGED sceneVars
    /\ UNCHANGED lastTransform

\* the key each camera movement of ProcessKeyboardEvents is bound to, in the
\* order the keys are tested
MovementKeys ==
    << <<"W", "FORWARD">>, <<"A", "BACKWARD">>, <<"S", "LEFT">>,
       <<"D", "RIGHT">>, <<"Q", "UP">>, <<"E", "DOWN">> >>

\* the g_pCamera->ProcessKeyboard calls for the keys from position i on
RECURSIVE ProcessKeyboardFrom(_, _, _)
ProcessKeyboardFrom(i, down, deltaTime) ==
    IF i > Len(MovementKeys) THEN <<>>
    ELSE (IF MovementKeys[i][1] \in down
          THEN << <<MovementKeys[i][2], deltaTime>> >> ELSE <<>>)
         \o ProcessKeyboardFrom(i + 1, down, deltaTime)

\* faulty variant: the key tests are chained with else, so that only the
\* first pressed key moves the camera
ProcessKeyboardEvents_ElseIf(down, deltaTime) ==
    [close |-> "ESCAPE" \in down,
     moves |-> LET all == ProcessKeyboardFrom(1, down, deltaTime)
               IN  IF all = <<>> THEN <<>> ELSE <<all[1]>>]

\* ProcessKeyboardEvents: whether the window is asked to close, and the
\* camera movements made
ProcessKeyboardEvents(down, deltaTime) ==
    [close |-> "ESCAPE" \in down,
     moves |-> ProcessKeyboardFrom(1, down, deltaTime)]

\* the projection matrix PrepareSceneView builds, by its parameters
Projection(orthographic) ==
    IF orthographic
    THEN [kind |-> "ortho",
          left   |-> -((WINDOW_WIDTH * 1000) \div WINDOW_HEIGHT),
          right  |-> (WINDOW_WIDTH * 1000) \div WINDOW_HEIGHT,
          bottom |-> -1000, top |-> 1000, zNear |-> 10, zFar |-> 10000]
    ELSE [kind |-> "perspective", fovy |-> g_pCamera.Zoom,
          aspect |-> (WINDOW_WIDTH * 100) \div WINDOW_HEIGHT,
          zNear |-> 10, zFar |-> 10000]

\* PrepareSceneView: one frame's timing, keyboard processing and uniforms
PrepareSceneView ==
    /\ pc = "idle"
    /\ \E currentFrame \in gLastFrame..MaxClock :
         LET deltaTime == currentFrame - gLastFrame
             keyboard == ProcessKeyboardEvents(keysDown, deltaTime)
         IN  /\ gDeltaTime' = deltaTime
             /\ gLastFrame' = currentFrame
             /\ windowShouldClose' = (windowShouldClose \/ keyboard.close)
             /\ cameraCalls' = keyboard.moves
             /\ uniforms' =
                  IF m_pShaderManager # "NULL"
                  THEN ApplyWrites(uniforms,
                         << <<"view", <<"GetViewMatrix", g_pCamera>>>>,
                            <<"projection", Projection(bOrthographicProjection)>>,
                            <<"viewPosition", g_pCamera.Position>> >>)
                  ELSE uniforms
    /\ lastFrame' = [n |-> 1, lastPOPress |-> lastPOPress,
                      polled |-> keysDown \cap PolledKeys,
                      fieldOV |-> fieldOV,
                      scrolled |-> lastScroll.called
                                     /\ lastScroll.fieldOV # fieldOV]
    /\ UNCHANGED <<g_pCamera, bOrthographicProjection, keysDown, lastPOPress>>
    /\ UNCHANGED <<cursorVars, scrollVars>>
    /\ UNCHANGED sceneButUniforms
    /\ UNCHANGED lastTransform

NextView ==
    \/ KeyEvent
    \/ PrepareSceneView


----------------------------------------------------------------------------
\* ViewManager: the mouse handlers.

\* speedIncrement = 0.1f
speedIncrement == 10

\* the product of two numbers kept in hundredths
Times(a, b) == (a * b) \div 100

\* mouse positions explored (hundredths of a pixel); GLFW also reports
\* positions outside the 1000 x 800 window
MouseXInputs == {0, 50000, 100000}
MouseYInputs == {0, 45000, 90000}

\* scroll wheel offsets explored (hundredths)
ScrollInputs == {-45000, -10000, 10000, 45000}

\* the direction glm::normalize(cameraF) of a yaw and a pitch
CameraFront(yaw, pitch) == [yaw |-> yaw, pitch |-> pitch]

\* faulty variant: the first event is not treated apart, its offsets are
\* taken from the initial gLastX, gLastY
MouseOffsets_NoFirstReset(first, lastX, lastY, xMousePos, yMousePos) ==
    <<Times(xMousePos - lastX, speedIncrement),
      Times(lastY - yMousePos, speedIncrement)>>

\* the xOffset and yOffset of Mouse_Position_Callback after scaling: on the
\* first event gLastX, gLastY are first set to the event's position
MouseOffsets(first, lastX, lastY, xMousePos, yMousePos) ==
    LET x0 == IF first THEN xMousePos ELSE lastX
        y0 == IF first THEN yMousePos ELSE lastY
    IN  <<Times(xMousePos - x0, speedIncrement),
          Times(y0 - yMousePos, speedIncrement)>>

\* faulty variant: only the upper limit is applied
ClampPitch_UpperOnly(pitch) == IF pitch > 8900 THEN 8900 ELSE pitch

\* the two limits Mouse_Position_Callback applies to pitchSS
ClampPitch(pitch) ==
    LET upper == IF pitch > 8900 THEN 8900 ELSE pitch
    IN  IF upper < -8900 THEN -8900 ELSE upper

\* GLFW reports a mouse move to (xMousePos, yMousePos)
Mouse_Position_Callback ==
    /\ pc = "idle"
    /\ \E xMousePos \in MouseXInputs, yMousePos \in MouseYInputs :
         LET offsets == MouseOffsets(gFirstMouse, gLastX, gLastY,
                                     xMousePos, yMousePos)
             yaw == yawVA + offsets[1]
             pitch == ClampPitch(pitchSS + offsets[2])
         IN  /\ gFirstMouse' = FALSE
             /\ gLastX' = xMousePos
             /\ gLastY' = yMousePos
             /\ yawVA' = yaw
             /\ pitchSS' = pitch
             /\ g_pCamera' = [g_pCamera EXCEPT !.Front = CameraFront(yaw, pitch)]
             /\ lastMouse' = [called |-> TRUE, first |-> ~lastMouse.called,
                              x |-> xMousePos, y |-> yMousePos,
                              previous |-> <<lastMouse.x, lastMouse.y>>,
                              xOffset |-> offsets[1], yOffset |-> offsets[2],
                              yaw |-> yawVA, pitch |-> pitchSS]
    /\ UNCHANGED <<frameVars, scrollVars>>
    /\ UNCHANGED sceneVars
    /\ UNCHANGED lastTransform

NextMouse == Mouse_Position_Callback

\* the new fieldOV of Mouse_Scroll_Callback
ScrollFieldOV(yOffset) ==
    LET adjScrollOffset == Times(yOffset, speedIncrement)
        moved == fieldOV + adjScrollOffset
        lower == IF moved < 100 THEN 100 ELSE moved
    IN  IF lower > 9000 THEN 9000 ELSE lower

\* GLFW reports a scroll of the wheel by yOffset
Mouse_Scroll_Callback ==
    /\ pc = "idle"
    /\ \E yOffset \in ScrollInputs :
         /\ fieldOV' = ScrollFieldOV(yOffset)
         /\ lastScroll' = [called |-> TRUE, fieldOV |-> fieldOV,
                           yOffset |-> yOffset]
    /\ UNCHANGED <<g_pCamera, frameVars, cursorVars>>
    /\ UNCHANGED sceneVars
    /\ UNCHANGED lastTransform

NextScroll ==
    \/ Mouse_Scroll_Callback
    \/ PrepareSceneView
----------------------------------------------------------------------------
\* SetTransformations as a function of its inputs.

\* inputs explored: scales and positions in hundredths, right angles
ScaleInputs == {<<100, 100, 100>>, <<200, 50, 300>>, <<-10, 175, 0>>}
AngleInputs == {0, 9000, 18000, -9000}
PositionInputs == {<<0, 0, 0>>, <<100, -200, 300>>, <<-350, 0, 250>>}

\* the arguments a caller is about to pass to SetTransformations
TransformInputs ==
    {[called |-> FALSE, scale |-> s, X |-> x, Y |-> y, Z |-> z, position |-> p] :
        s \in ScaleInputs, x \in AngleInputs, y \in AngleInputs,
        z \in AngleInputs, p \in PositionInputs}

\* the caller invokes SetTransformations with its arguments
SetTransformations_Call ==
    /\ pc = "idle"
    /\ ~lastTransform.called
    /\ uniforms' = ApplyWrites(uniforms,
                      SetTransformations(lastTransform.scale, lastTransform.X,
                                         lastTransform.Y, lastTransform.Z,
                                         lastTransform.position))
    /\ lastTransform' = [lastTransform EXCEPT !.called = TRUE]
    /\ UNCHANGED sceneButUniforms
    /\ UNCHANGED viewVars

NextTransform == SetTransformations_Call

Init == SceneInit /\ ViewInit /\ lastTransform = NoTransform

SpecScene == Init /\ [][NextScene]_vars

SpecView == Init /\ [][NextView]_vars

SpecMouse == Init /\ [][NextMouse]_vars

SpecScroll == Init /\ [][NextScroll]_vars

InitTransform == SceneInit /\ ViewInit /\ lastTransform \in TransformInputs

SpecTransform == InitTransform /\ [][NextTransform]_vars

----------------------------------------------------------------------------
\* Properties of the view manager (checked under SpecView).

\* C7: the projection mode is orthographic exactly when the most recent press
\* event among P and O was O (releases, repeats and other keys leave it), and
\* the projection PrepareSceneView uploaded is orthographic exactly when that
\* was so when it ran, perspective otherwise.
C7_ProjectionFollowsLastPress ==
    /\ bOrthographicProjection = (lastPOPress = "O")
    /\ lastFrame.n > 0 =>
         uniforms["projection"].kind =
           (IF lastFrame.lastPOPress = "O" THEN "ortho" ELSE "perspective")

\* C7 witness: O was pressed and released, another key is held, and a frame
\* then uploaded the orthographic projection.
C7_Witness ==
    /\ lastFrame.n > 0
    /\ lastFrame.lastPOPress = "O"
    /\ "O" \notin keysDown
    /\ "W" \in keysDown
    /\ uniforms["projection"].kind = "ortho"

----------------------------------------------------------------------------
\* Properties of SetTransformations (checked under SpecTransform).

\* the steps of the composition, one at a time on a point <<x, y, z>>
ScalePoint(p, s) == <<p[1] * s[1], p[2] * s[2], p[3] * s[3]>>

RotatePointX(p, deg) ==
    <<p[1], Cos(deg) * p[2] - Sin(deg) * p[3], Sin(deg) * p[2] + Cos(deg) * p[3]>>

RotatePointY(p, deg) ==
    <<Cos(deg) * p[1] + Sin(deg) * p[3], p[2], Cos(deg) * p[3] - Sin(deg) * p[1]>>

RotatePointZ(p, deg) ==
    <<Cos(deg) * p[1] - Sin(deg) * p[2], Sin(deg) * p[1] + Cos(deg) * p[2], p[3]>>

TranslatePoint(p, t) == <<p[1] + t[1], p[2] + t[2], p[3] + t[3]>>

\* points of the mesh the matrix is tried on
MeshPoints == {<<0, 0, 0>>, <<1, 0, 0>>, <<0, 1, 0>>, <<0, 0, 1>>, <<1, -2, 3>>}

\* C8: the uploaded model matrix takes every point to the point got by
\* scaling it, then rotating it about X, then about Y, then about Z, then
\* translating it.
C8_ModelMatrixOrder ==
    lastTransform.called =>
        \A p \in MeshPoints :
            LET q == TranslatePoint(
                       RotatePointZ(
                         RotatePointY(
                           RotatePointX(ScalePoint(p, lastTransform.scale),
                                        lastTransform.X),
                           lastTransform.Y),
                         lastTransform.Z),
                       lastTransform.position)
            IN  MatVec(uniforms["model"], <<p[1], p[2], p[3], 1>>)
                  = <<q[1], q[2], q[3], 1>>

\* C8 witness: a call with a non-uniform scale, a quarter turn about each of
\* two axes and a translation, where the order of the factors matters.
C8_Witness ==
    /\ lastTransform.called
    /\ lastTransform.scale = <<200, 50, 300>>
    /\ lastTransform.X = 9000
    /\ lastTransform.Y = -9000
    /\ lastTransform.Z = 18000
    /\ lastTransform.position = <<100, -200, 300>>
    /\ uniforms["model"] = << <<0, 50, 0, 100>>, <<0, 0, 300, -200>>,
                              <<200, 0, 0, 300>>, <<0, 0, 0, 1>> >>

----------------------------------------------------------------------------
\* Properties of the scene manager (checked under SpecScene).

\* the indices below m_loadedTextures whose registered tag is tag
SlotsTagged(tag) ==
    {i \in 0..(m_loadedTextures - 1) : TextureAt(i).tag = tag}

\* the positions of the materials list whose tag is tag
MaterialsTagged(materials, tag) ==
    {i \in 1..Len(materials) : materials[i].tag = tag}

FirstOf(S) == CHOOSE i \in S : \A j \in S : i <= j

Count(seq, x) == Cardinality({i \in 1..Len(seq) : seq[i] = x})

\* C1: the number of registered textures never exceeds 16 and every write to
\* the registry lands in an index 0..15 of the 16-entry array.
C1_RegistryWithinArray ==
    /\ m_loadedTextures <= MaxTextures
    /\ overrun = <<>>
    /\ lastCreate.outcome \in {"none", "stored"}

\* for every tag FindTextureSlot gives the smallest index
\* below m_loadedTextures registered under that tag, and -1 when there is none.
C2_SlotIsFirstMatch ==
    \A tag \in Tags :
        IF SlotsTagged(tag) = {}
        THEN FindTextureSlot(tag) = -1
        ELSE /\ FindTextureSlot(tag) \in SlotsTagged(tag)
             /\ FindTextureSlot(tag) < m_loadedTextures
             /\ \A j \in SlotsTagged(tag) : FindTextureSlot(tag) <= j

\* C2: FindTextureSlot returns the first slot registered under the tag, or -1,
\* never an index >= m_loadedTextures, and the registry after a lookup made
\* by RenderScene (through SetShaderTexture) is the registry before it.
C2_FindTextureSlot ==
    /\ C2_SlotIsFirstMatch
    /\ (pc = "RenderScene" /\ lastLookup.tag # "none") =>
          /\ m_textureIDs = lastLookup.ids
          /\ overrun = lastLookup.over
          /\ m_loadedTextures = lastLookup.n
          /\ lastLookup.slot = FindTextureSlot(lastLookup.tag)
          /\ lastLookup.slot < m_loadedTextures

\* C2 witness: a tag registered twice whose first slot is not slot 0 has been
\* looked up by RenderScene, and so has a tag that is not registered.
C2_Witness ==
    /\ pc = "RenderScene"
    /\ lastLookup.tag = "cheese"
    /\ Cardinality(SlotsTagged("cheese")) >= 2
    /\ uniforms["objectTexture"] = FirstOf(SlotsTagged("cheese"))
    /\ FirstOf(SlotsTagged("cheese")) > 0
    /\ lastLookup.slot = FirstOf(SlotsTagged("cheese"))
    /\ SlotsTagged("gold") = {}
    /\ FindTextureSlot("gold") = -1

\* C3: FindMaterial returns true exactly when the list holds a material with
\* the tag, then giving the five values of the first such material.
C3_FindMaterialFoundIffPresent ==
    \A tag \in Tags, uninit \in UninitMaterials :
        LET found == FindMaterial(tag, uninit)
            hits == MaterialsTagged(m_objectMaterials, tag)
        IN  /\ found.ret = (hits # {})
            /\ hits # {} =>
                 found.material =
                   [m_objectMaterials[FirstOf(hits)] EXCEPT !.tag = uninit.tag]

\* the five uniform writes that upload material m
MaterialWrites(m) ==
    << <<"material.diffuseColor", m.diffuseColor>>,
       <<"material.specularColor", m.specularColor>>,
       <<"material.shininess", m.shininess>>,
       <<"material.ambientColor", m.ambientColor>>,
       <<"material.ambientStrength", m.ambientStrength>> >>

\* C4: SetShaderMaterial writes the five material uniforms only when the list
\* holds a material with the tag, and then that material's values; for a tag
\* that is not in the list it writes nothing.
C4_MaterialUniformsOnlyWhenFound ==
    lastMaterialCall.tag # "none" =>
        LET hits == MaterialsTagged(lastMaterialCall.materials,
                                    lastMaterialCall.tag)
        IN  IF hits = {}
            THEN lastMaterialCall.writes = <<>>
            ELSE lastMaterialCall.writes =
                   MaterialWrites(lastMaterialCall.materials[FirstOf(hits)])

\* C5: a CreateGLTexture call whose image loads with 3 or 4 channels returns
\* true, stores the new ID and the tag in slot (previous m_loadedTextures) of
\* the 16-entry array, adds one to m_loadedTextures and leaves the slots
\* registered before as they were.
C5_SuccessfulCreateRegisters ==
    (lastCreate.tag # "none" /\ lastCreate.image = "3 or 4 channels") =>
        /\ lastCreate.ret = TRUE
        /\ lastCreate.outcome = "stored"
        /\ lastCreate.n < MaxTextures
        /\ m_loadedTextures = lastCreate.n + 1
        /\ m_textureIDs[lastCreate.n] = [tag |-> lastCreate.tag, ID |-> glGenCount]
        /\ \A i \in 0..(MaxTextures - 1) :
             i # lastCreate.n => m_textureIDs[i] = lastCreate.ids[i]

\* C6: a CreateGLTexture call whose image does not load, or loads with a
\* channel count other than 3 or 4, returns false and leaves m_loadedTextures
\* and every registered tag and ID as before the call.
C6_FailedCreateLeavesRegistry ==
    (lastCreate.tag # "none" /\ lastCreate.image # "3 or 4 channels") =>
        /\ lastCreate.ret = FALSE
        /\ m_loadedTextures = lastCreate.n
        /\ m_textureIDs = lastCreate.ids
        /\ overrun = lastCreate.over

\* C6 witness: with textures registered, one call failed on an image that
\* loaded with one channel (a texture name was generated, nothing registered).
C6_Witness ==
    /\ lastCreate.tag # "none"
    /\ lastCreate.image = "other channels"
    /\ lastCreate.ret = FALSE
    /\ lastCreate.n >= 6
    /\ m_loadedTextures = lastCreate.n
    /\ glGenCount = m_loadedTextures + 1

\* C9: every draw call of RenderScene has, since the previous draw call (or
\* the start of RenderScene), exactly one SetTransformations call, which comes
\* first, and exactly one SetShaderColor call.
C9_EachDrawHasOwnSetup ==
    lastDraw.mesh # "none" =>
        /\ Count(lastDraw.setup, "SetTransformations") = 1
        /\ Count(lastDraw.setup, "SetShaderColor") = 1
        /\ lastDraw.setup[1] = "SetTransformations"
        /\ Count(lastDraw.setup, "Draw") = 0

\* C9 witness: RenderScene has run to its last draw call, whose setup had no
\* SetShaderTexture call.
C9_Witness ==
    /\ pc = "idle"
    /\ lastDraw.mesh = "Torus"
    /\ lastDraw.setup = <<"SetTransformations", "SetShaderColor", "SetShaderMaterial">>

\* C10: a PrepareScene that returns has loaded textures, then defined the
\* materials, then set up the lights, then loaded the nine mesh types; and a
\* draw call made after a PrepareScene draws a loaded mesh.
C10_PrepareOrderAndMeshes ==
    /\ (pc = "idle" /\ prepareCalls > 0) =>
          prepLog = <<"LoadSceneTextures", "DefineObjectMaterials",
                      "SetupSceneLights", "Plane", "Cylinder", "Cone", "Torus",
                      "TaperedCylinder", "Sphere", "Pyramid3", "Prism", "Box">>
    /\ lastDraw.prepared => lastDraw.loaded

\* C10 witness: after a PrepareScene, RenderScene has drawn its last mesh.
C10_Witness ==
    /\ pc = "idle"
    /\ prepareCalls > 0
    /\ lastDraw.mesh = "Torus"
    /\ lastDraw.prepared
    /\ lastDraw.loaded

----------------------------------------------------------------------------
\* Properties of the keyboard processing (checked under SpecView).

\* the movement keys in the order W, A, S, D, Q, E
KeyOrder == <<"W", "A", "S", "D", "Q", "E">>

\* the camera movement each movement key stands for
MovementOf(key) ==
    CASE key = "W" -> "FORWARD"
      [] key = "A" -> "BACKWARD"
      [] key = "S" -> "LEFT"
      [] key = "D" -> "RIGHT"
      [] key = "Q" -> "UP"
      [] key = "E" -> "DOWN"

\* the position of the key a movement belongs to, in KeyOrder
RankOf(movement) ==
    CHOOSE i \in 1..Len(KeyOrder) : MovementOf(KeyOrder[i]) = movement

\* C11: in the ProcessKeyboardEvents call of a frame, each of the keys W, A,
\* S, D, Q, E that is pressed makes exactly one camera movement with the
\* frame's delta time (W forward, A backward, S left, D right, Q up, E down)
\* and a key that is not pressed makes none; the movements come in the order
\* W, A, S, D, Q, E; and a pressed Escape key asks the window to close.
C11_KeysMoveCameraInOrder ==
    lastFrame.n > 0 =>
        /\ \A i \in 1..Len(KeyOrder) :
             Count(cameraCalls, <<MovementOf(KeyOrder[i]), gDeltaTime>>) =
               (IF KeyOrder[i] \in lastFrame.polled THEN 1 ELSE 0)
        /\ Len(cameraCalls) = Cardinality(lastFrame.polled \ {"ESCAPE"})
        /\ \A i, j \in 1..Len(cameraCalls) :
             i < j => RankOf(cameraCalls[i][1]) < RankOf(cameraCalls[j][1])
        /\ "ESCAPE" \in lastFrame.polled => windowShouldClose

\* C11 witness: a frame ran with D and A held: the camera moved backward,
\* then right, each with the frame's delta time; and an earlier frame with
\* Escape held has asked the window to close.
C11_Witness ==
    /\ lastFrame.n > 0
    /\ lastFrame.polled = {"A", "D"}
    /\ gDeltaTime = 1
    /\ cameraCalls = << <<"BACKWARD", 1>>, <<"RIGHT", 1>> >>
    /\ windowShouldClose

----------------------------------------------------------------------------
\* Properties of texture teardown and of the load message (checked under
\* SpecScene).

\* the texture names held by the slots 0..n-1 of a registry
NamesRegistered(ids, over, n) ==
    {ids[i].ID : i \in {j \in 0..(MaxTextures - 1) : j < n}}
      \cup {over[k].ID : k \in 1..Len(over)}

\* C12: after DestroyGLTextures returns, every texture name held by a used
\* slot of the registry has been released, and no new texture name has been
\* generated.
C12_DestroyReleasesTextures ==
    (lastDestroy.called /\ lastDestroy.returned) =>
        /\ NamesRegistered(lastDestroy.ids, lastDestroy.over, lastDestroy.n)
             \subseteq glDeleted
        /\ glGenCount = lastDestroy.gen

\* C13: when LoadSceneTextures has made its five CreateGLTexture calls and
\* printed its message, the message is "Texture loaded successfully." only
\* if every call returned true, and "Failed to load texture." if any
\* returned false.
C13_MessageReflectsEveryLoad ==
    (pc # "LoadSceneTextures" /\ Len(createLog) = Len(SceneTextures)) =>
        /\ console = "Texture loaded successfully." =>
             \A i \in 1..Len(createLog) : createLog[i]
        /\ (\E i \in 1..Len(createLog) : ~createLog[i]) =>
             console = "Failed to load texture."

----------------------------------------------------------------------------
\* Properties of the mouse position handler (checked under SpecMouse).

\* C14: the first-mouse flag is true exactly until the first
\* Mouse_Position_Callback (true at the start, false from the first callback
\* on); the first callback has zero X and Y offsets and leaves yaw and pitch
\* as they were; after every callback gLastX, gLastY are that callback's
\* position; and every later callback's offsets are the difference between
\* its position and the previous callback's position (Y reversed), times 0.1.
C14_FirstMouseAndOffsets ==
    /\ gFirstMouse = ~lastMouse.called
    /\ lastMouse.called =>
         /\ gLastX = lastMouse.x
         /\ gLastY = lastMouse.y
         /\ IF lastMouse.first
            THEN /\ lastMouse.xOffset = 0
                 /\ lastMouse.yOffset = 0
                 /\ yawVA = lastMouse.yaw
                 /\ pitchSS = lastMouse.pitch
            ELSE /\ 10 * lastMouse.xOffset = lastMouse.x - lastMouse.previous[1]
                 /\ 10 * lastMouse.yOffset = lastMouse.previous[2] - lastMouse.y

\* C14 witness: a later callback moved the mouse by 500 pixels in X and 450
\* in Y from the previous event's position: offsets of 50 and -45 degrees.
C14_Witness ==
    /\ lastMouse.called
    /\ ~lastMouse.first
    /\ lastMouse.previous = <<50000, 45000>>
    /\ lastMouse.x = 100000
    /\ lastMouse.y = 90000
    /\ lastMouse.xOffset = 5000
    /\ lastMouse.yOffset = -4500
    /\ ~gFirstMouse

\* C15: the pitch is always within [-89, 89] degrees; a mouse move that
\* would take it above 89 leaves it at exactly 89, one that would take it
\* below -89 at exactly -89, and otherwise it moves by the Y offset; the yaw
\* always moves by the whole X offset.
C15_PitchClamped ==
    /\ pitchSS >= -8900
    /\ pitchSS <= 8900
    /\ lastMouse.called =>
         LET moved == lastMouse.pitch + lastMouse.yOffset
         IN  /\ moved > 8900 => pitchSS = 8900
             /\ moved < -8900 => pitchSS = -8900
             /\ (moved >= -8900 /\ moved <= 8900) => pitchSS = moved
             /\ yawVA = lastMouse.yaw + lastMouse.xOffset

\* C15 witness: a move that would take the pitch to -90 degrees left it at
\* -89, while the yaw went to -190 degrees.
C15_Witness ==
    /\ lastMouse.called
    /\ lastMouse.pitch + lastMouse.yOffset = -9000
    /\ pitchSS = -8900
    /\ yawVA = -19000

----------------------------------------------------------------------------
\* Properties of the scroll handler (checked under SpecScroll).

\* C16: when a scroll event has changed the field of view, the perspective
\* projection the next PrepareSceneView uploads has that field of view.
C16_ProjectionUsesScrolledFieldOfView ==
    (lastFrame.n > 0 /\ lastFrame.scrolled
       /\ uniforms["projection"].kind = "perspective") =>
        uniforms["projection"].fovy = lastFrame.fieldOV

=============================================================================
